---------------------------- MODULE Spec2Model ----------------------------
(***************************************************************************)
(* A model of staged.py, the staging/publishing pubsub deployer: the       *)
(* event-consumption loop (listen), the shared deploy queue                *)
(* (PUBSUB_QUEUE), the drain thread (deploy.run), the reconciliation of a   *)
(* request against the on-disk checkout (deploy_site) and the VCS and       *)
(* purge operations it calls.                                               *)
(*                                                                         *)
(* Python strings are sequences of one-character strings, so that the      *)
(* string functions the code relies on (replace, startswith, re.match,     *)
(* os.path.join, os.path.abspath) are computed as Python computes them.    *)
(***************************************************************************)
EXTENDS Integers, Sequences, FiniteSets, TLC

(***************************************************************************)
(* Constants of staged.py                                                  *)
(***************************************************************************)
ROOT_DIR == <<"/","w","w","w">>
BLOGS_ROOT_DIR == <<"/","w","w","w","/","b","l","o","g","s">>
GITBOX_PREFIX == <<"h","t","t","p","s",":","/","/","g","i","t","b","o","x",".","a","p","a","c","h","e",".","o","r","g","/","r","e","p","o","s","/","a","s","f","/">>
GITHUB_PREFIX == <<"h","t","t","p","s",":","/","/","g","i","t","h","u","b",".","c","o","m","/","a","p","a","c","h","e","/">>
DOT_APACHE_ORG == <<".","a","p","a","c","h","e",".","o","r","g">>
DOT_BLOG == <<".","b","l","o","g">>
DOT_BLOG_APACHE_ORG == <<".","b","l","o","g",".","a","p","a","c","h","e",".","o","r","g">>
WWW_APACHE_ORG == <<"w","w","w",".","a","p","a","c","h","e",".","o","r","g">>
APACHE_ORG == <<"a","p","a","c","h","e",".","o","r","g">>
REFS_HEADS == <<"r","e","f","s","/","h","e","a","d","s","/">>
ASF_SITE == <<"a","s","f","-","s","i","t","e">>
CHECKOUT_TIMEOUT == 180

\* Python's None, a value no string equals.
None == <<"<None>">>

(***************************************************************************)
(* Python string functions                                                 *)
(***************************************************************************)
LowerLetters == {"a","b","c","d","e","f","g","h","i","j","k","l","m","n","o","p","q","r","s","t","u","v","w","x","y","z"}
UpperLetters == {"A","B","C","D","E","F","G","H","I","J","K","L","M","N","O","P","Q","R","S","T","U","V","W","X","Y","Z"}
Digits == {"0","1","2","3","4","5","6","7","8","9"}
Whitespace == {" ", "\n", "\t", "\r"}

\* s.startswith(p)
StartsWith(s, p) == Len(s) >= Len(p) /\ SubSeq(s, 1, Len(p)) = p

\* s.endswith(p)
EndsWith(s, p) == Len(s) >= Len(p) /\ SubSeq(s, Len(s) - Len(p) + 1, Len(s)) = p

\* re.search of a literal: p occurs somewhere in s
Contains(s, p) == \E i \in 1..(Len(s) - Len(p) + 1) : SubSeq(s, i, i + Len(p) - 1) = p

\* s[n:]
Drop(s, n) == SubSeq(s, n + 1, Len(s))

\* s.replace(old, new): leftmost, non-overlapping occurrences
RECURSIVE Replace(_, _, _)
Replace(s, old, new) ==
    IF Len(s) < Len(old) THEN s
    ELSE IF StartsWith(s, old) THEN new \o Replace(Drop(s, Len(old)), old, new)
    ELSE <<Head(s)>> \o Replace(Tail(s), old, new)

\* s.strip(): leading and trailing whitespace removed
RECURSIVE LStrip(_)
LStrip(s) == IF s # <<>> /\ Head(s) \in Whitespace THEN LStrip(Tail(s)) ELSE s

RECURSIVE RStrip(_)
RStrip(s) ==
    IF s # <<>> /\ s[Len(s)] \in Whitespace THEN RStrip(SubSeq(s, 1, Len(s) - 1)) ELSE s

Strip(s) == LStrip(RStrip(s))

\* re.match(r"^[cls]+$", s): a run of one or more characters of cls from the
\* start, then the end of the string; Python's $ also matches just before a
\* newline that ends the string.
ReMatchClassPlus(cls, s) ==
    \E m \in 1..Len(s) :
        /\ \A i \in 1..m : s[i] \in cls
        /\ \/ m = Len(s)
           \/ m = Len(s) - 1 /\ s[Len(s)] = "\n"

\* the character class [-a-zA-Z0-9/.] of deploy_site
DeployDirClass == LowerLetters \cup UpperLetters \cup Digits \cup {"-", "/", "."}

\* the character class [-._a-zA-Z0-9/] of listen
SubdirClass == LowerLetters \cup UpperLetters \cup Digits \cup {"-", ".", "_", "/"}

\* "%s" % x, str(x)
Str(x) == IF x = None THEN <<"N","o","n","e">> ELSE x

\* truth value of a string or None
Truthy(x) == x # None /\ x # <<>>

(***************************************************************************)
(* posixpath                                                               *)
(***************************************************************************)
SLASH == <<"/">>

\* os.path.join(a, b)
PathJoin(a, b) ==
    IF StartsWith(b, SLASH) THEN b
    ELSE IF a = <<>> \/ EndsWith(a, SLASH) THEN a \o b
    ELSE a \o SLASH \o b

\* s.split("/")
RECURSIVE SplitSlash(_)
SplitSlash(s) ==
    IF \A i \in 1..Len(s) : s[i] # "/" THEN <<s>>
    ELSE LET i == CHOOSE j \in 1..Len(s) : s[j] = "/" /\ \A k \in 1..(j - 1) : s[k] # "/"
         IN  <<SubSeq(s, 1, i - 1)>> \o SplitSlash(Drop(s, i))

\* "/".join(comps)
RECURSIVE JoinSlash(_)
JoinSlash(comps) ==
    IF comps = <<>> THEN <<>>
    ELSE IF Len(comps) = 1 THEN comps[1]
    ELSE comps[1] \o SLASH \o JoinSlash(Tail(comps))

DOTDOT == <<".", ".">>

\* the component loop of posixpath.normpath
RECURSIVE NormComps(_, _, _)
NormComps(comps, acc, initial) ==
    IF comps = <<>> THEN acc
    ELSE LET c == Head(comps) IN
         IF c = <<>> \/ c = <<".">> THEN NormComps(Tail(comps), acc, initial)
         ELSE IF \/ c # DOTDOT
                 \/ (initial = 0 /\ acc = <<>>)
                 \/ (acc # <<>> /\ acc[Len(acc)] = DOTDOT)
              THEN NormComps(Tail(comps), Append(acc, c), initial)
         ELSE IF acc # <<>> THEN NormComps(Tail(comps), SubSeq(acc, 1, Len(acc) - 1), initial)
         ELSE NormComps(Tail(comps), acc, initial)

\* os.path.normpath(path)
NormPath(path) ==
    IF path = <<>> THEN <<".">>
    ELSE LET initial == IF ~StartsWith(path, SLASH) THEN 0
                        ELSE IF StartsWith(path, <<"/","/">>) /\ ~StartsWith(path, <<"/","/","/">>)
                             THEN 2 ELSE 1
             body == JoinSlash(NormComps(SplitSlash(path), <<>>, initial))
             res == [i \in 1..initial |-> "/"] \o body
         IN  IF res = <<>> THEN <<".">> ELSE res

\* os.path.abspath(path), for the absolute paths deploy_site builds: any join
\* onto ROOT_DIR is absolute, so the working directory is never consulted.
AbsPath(path) == NormPath(path)


(***************************************************************************)
(* common_parent                                                           *)
(***************************************************************************)
\* the index after the last "/" of p (p.rfind("/") + 1)
RFindSlash(p) ==
    IF \E i \in 1..Len(p) : p[i] = "/"
    THEN CHOOSE i \in 1..Len(p) : p[i] = "/" /\ \A k \in (i + 1)..Len(p) : p[k] # "/"
    ELSE 0

\* head.rstrip("/")
RECURSIVE RStripSlash(_)
RStripSlash(s) ==
    IF s # <<>> /\ s[Len(s)] = "/" THEN RStripSlash(SubSeq(s, 1, Len(s) - 1)) ELSE s

\* os.path.split(p): the pair (head, tail)
OsPathSplit(p) ==
    LET i == RFindSlash(p)
        head == SubSeq(p, 1, i)
        tail == Drop(p, i)
    IN  IF head # <<>> /\ (\E k \in 1..Len(head) : head[k] # "/")
        THEN <<RStripSlash(head), tail>>
        ELSE <<head, tail>>

\* One pass of the outer loop of common_parent. bits is a pair, so the inner
\* range(0, len(bits) - 1) is the single index 0, and bits[1:0] is empty:
\* tmp_path is bits[0] + "/".
CommonParentStep(top, filename, files) ==
    IF top = SLASH \/ ~StartsWith(filename, top)
    THEN LET bits == OsPathSplit(filename)
             tmp_path == bits[1] \o SLASH
         IN  IF \A k \in 1..Len(files) : StartsWith(files[k], tmp_path)
             THEN tmp_path ELSE top
    ELSE top

RECURSIVE CommonParentLoop(_, _, _)
CommonParentLoop(top, rest, files) ==
    IF rest = <<>> THEN top
    ELSE CommonParentLoop(CommonParentStep(top, Head(rest), files), Tail(rest), files)

\* common_parent(files)
common_parent(files) ==
    LET top == CommonParentLoop(SLASH, files, files)
    IN  IF top = <<>> THEN SLASH ELSE top

(***************************************************************************)
(* Inbound events.  A payload is a JSON object; each of its sections       *)
(* (commit, publish, staging) is missing, an object, or some other JSON    *)
(* value.  A field of an object is a string, None (JSON null) or Missing.  *)
(***************************************************************************)
Missing == <<"<missing>">>

WEBSITE == <<"w","e","b","s","i","t","e">>
BLOG == <<"b","l","o","g">>
SVN == <<"s","v","n">>
ROOT_USER == <<"r","o","o","t">>
INFRA == <<"i","n","f","r","a">>
SLASH_WWW_SLASH == <<"/","w","w","w","/">>

\* SVN_UUIDS: repository UUID -> repository root
SVN_ASF_UUID == <<"13f79535-47bb-0310-9956-ffa450edef68">>
SVN_INFRA_UUID == <<"90ea9780-b833-de11-8433-001ec94261de">>
SVN_ASF_ROOT == <<"h","t","t","p","s",":","/","/","s","v","n","-","m","a","s","t","e","r",".","a","p","a","c","h","e",".","o","r","g","/","r","e","p","o","s","/","a","s","f">>
SVN_INFRA_ROOT == <<"h","t","t","p","s",":","/","/","s","v","n","-","m","a","s","t","e","r",".","a","p","a","c","h","e",".","o","r","g","/","r","e","p","o","s","/","i","n","f","r","a">>
SVN_UUIDS == {SVN_ASF_UUID, SVN_INFRA_UUID}
SvnRoot(uuid) == IF uuid = SVN_ASF_UUID THEN SVN_ASF_ROOT ELSE SVN_INFRA_ROOT

\* d.get(k, default) for a field value v
Get(v, default) == IF v = Missing THEN default ELSE v

\* a section that is not in the payload
NoNative ==
    [is |-> "missing", project |-> Missing, source |-> Missing, branch |-> Missing,
     profile |-> Missing, pusher |-> Missing, subdir |-> Missing, type |-> Missing,
     target |-> Missing, deploytype |-> Missing]

NoCommit ==
    [is |-> "missing", type |-> Missing, repository |-> Missing,
     changed |-> <<>>, committer |-> Missing]

\* deployer.svnconfig["track"]: (target, url) pairs of svnwcsub.conf, in file
\* order.  The first is a site, the second a configuration default.
TrackTarget == <<"/","w","w","w","/","f","o","o",".","a","p","a","c","h","e",".","o","r","g">>
TrackUrl == <<"h","t","t","p","s",":","/","/","s","v","n","-","m","a","s","t","e","r",".","a","p","a","c","h","e",".","o","r","g","/","r","e","p","o","s","/","a","s","f","/","f","o","o","/","s","i","t","e">>
SvnTrack == << <<TrackTarget, TrackUrl>>, <<<<"a","s","f">>, SVN_ASF_ROOT>> >>

\* The payload listen fakes for a matching track entry: note the key
\* "deploytype", and no key "type".
FakePublish(target, svn_url, commit) ==
    [commit |-> commit,
     staging |-> NoNative,
     publish |->
        [NoNative EXCEPT
            !.is = "dict",
            !.project = IF Contains(target, SLASH_WWW_SLASH)
                        THEN Replace(OsPathSplit(target)[2], DOT_APACHE_ORG, <<>>)
                        ELSE INFRA,
            !.source = svn_url,
            !.pusher = Get(commit.committer, ROOT_USER),
            !.deploytype = SVN,
            !.target = target]]

\* for target, url in track.items(): each match replaces the payload
RECURSIVE TrackLoop(_, _, _, _)
TrackLoop(track, payload, svn_url, commit) ==
    IF track = <<>> THEN payload
    ELSE LET target == Head(track)[1]
             url == Head(track)[2]
         IN  TrackLoop(Tail(track),
                       IF StartsWith(svn_url, url) /\ StartsWith(target, SLASH)
                       THEN FakePublish(target, svn_url, commit) ELSE payload,
                       svn_url, commit)

\* a commit section that is a Subversion commit to a repository of SVN_UUIDS
Recognized(commit) ==
    /\ commit.is = "dict"
    /\ Get(commit.type, <<>>) = SVN
    /\ Get(commit.repository, <<>>) \in SVN_UUIDS

\* a conversion that takes a commit to any repository for one to the main
\* repository
SvnConvertAnyRepository(payload) ==
    LET commit == payload.commit IN
    IF commit.is = "dict" /\ Get(commit.type, <<>>) = SVN
    THEN LET cp == common_parent(commit.changed)
             svn_root == IF Get(commit.repository, <<>>) \in SVN_UUIDS
                         THEN SvnRoot(commit.repository) ELSE SVN_ASF_ROOT
             svn_url == PathJoin(svn_root, cp)
         IN  TrackLoop(SvnTrack, payload, svn_url, commit)
    ELSE payload

\* svnpubsub -> publish conversion of listen
SvnConvert(payload) ==
    LET commit == payload.commit IN
    IF Recognized(commit)
    THEN LET cp == common_parent(commit.changed)
             svn_url == PathJoin(SvnRoot(commit.repository), cp)
         IN  IF SvnTrack # <<>> THEN TrackLoop(SvnTrack, payload, svn_url, commit)
             ELSE payload
    ELSE payload

\* what one pass of listen's loop body does with a payload: the exception it
\* raises ("none" if it raises none) and the queue entry it stores, if any
NoEntry == [exc |-> "none", enq |-> FALSE, key |-> <<>>,
            opts |-> [source |-> <<>>, branch |-> <<>>, committer |-> <<>>,
                      hostname |-> <<>>, deploytype |-> <<>>]]

Raise(e) == [NoEntry EXCEPT !.exc = e]

NormalizeNative(sec, publish) ==
    IF sec.is = "other" THEN Raise("AttributeError")
    ELSE
    LET project == Get(sec.project, None)
        source == Get(sec.source, None)
        rawbranch == Get(sec.branch, ASF_SITE)
        branch == Replace(rawbranch, REFS_HEADS, <<>>)
        profile == Get(sec.profile, <<>>)
        committer == Get(sec.pusher, ROOT_USER)
        subdir == Get(sec.subdir, <<>>)
        rawtype == Get(sec.type, WEBSITE)
        deploytype == IF rawtype \in {WEBSITE, BLOG, SVN} THEN rawtype ELSE WEBSITE
        staged == IF Truthy(profile) THEN project \o <<"-">> \o profile ELSE project
        hostdir == Get(sec.target, None)
        deploydir == IF publish
                     THEN IF sec.target # Missing /\ Truthy(hostdir) THEN hostdir
                          ELSE Str(project) \o DOT_APACHE_ORG
                     ELSE staged
        extended == IF Truthy(subdir) /\ ReMatchClassPlus(SubdirClass, subdir)
                    THEN PathJoin(deploydir, subdir) ELSE deploydir
        key == IF deploytype = BLOG THEN Str(project) \o DOT_BLOG ELSE extended
    IN  IF rawbranch = None THEN Raise("AttributeError")
        ELSE IF Truthy(profile) /\ project = None THEN Raise("TypeError")
        ELSE IF Truthy(deploydir) /\ Truthy(source) /\ Truthy(branch)
        THEN [exc |-> "none", enq |-> TRUE, key |-> key,
              opts |-> [source |-> source, branch |-> branch, committer |-> committer,
                        hostname |-> deploydir, deploytype |-> deploytype]]
        ELSE NoEntry

Normalize(payload, publish) ==
    LET converted == SvnConvert(payload)
        sec == IF publish THEN converted.publish ELSE converted.staging
    IN  IF sec.is = "missing" THEN NoEntry ELSE NormalizeNative(sec, publish)


(***************************************************************************)
(* State                                                                   *)
(***************************************************************************)
VARIABLES
    PUBLISH,          \* the module constant PUBLISH ("tlp" in the host name)
    FASTLY_API_KEY,   \* TRUE iff the key file existed at start (a non-empty key)
    fs0,              \* what every directory not yet written by the engine holds
    fs,               \* path -> what the directory holds, for the paths written
    heap,             \* dict objects: identity -> list of (key, opts) entries
    PUBSUB_QUEUE,     \* the global: identity of the live queue dict
    XPQ,              \* deploy.run's local: identity of the snapshot dict
    it,               \* the dict iterator of the for loop: position and size at creation
    item,             \* the (deploydir, opts) entry the for loop has bound
    dpc,              \* where the drain thread is: take, clear, iter, body, hung, dead
    lpc,              \* where listen is: idle, store, dead
    lref,             \* the dict listen has loaded (LOAD_GLOBAL) for its store
    lent,             \* the entry listen is about to store
    lpayload,         \* listen's payload: the payload received last
    lcp,              \* listen's cp: the common parent computed last
    nev,              \* payloads received so far
    cur,              \* what the body of the for loop has just done (until the loop moves on)
    ups,              \* per dict and key: the last opts stored and how many stores
    pend              \* key -> opts stored by listen and not yet bound by the for loop

vars == <<PUBLISH, FASTLY_API_KEY, fs0, fs, heap, PUBSUB_QUEUE, XPQ, it, item,
          dpc, lpc, lref, lent, lpayload, lcp, nev, cur, ups, pend>>

(***************************************************************************)
(* The filesystem: what a directory holds.  Paths are independent of each  *)
(* other (a directory's parents and children are not modelled).            *)
(***************************************************************************)
Absent == [k |-> "absent", origin |-> <<>>, branch |-> <<>>]
SvnWC == [k |-> "svn", origin |-> <<>>, branch |-> <<>>]
PlainDir == [k |-> "dir", origin |-> <<>>, branch |-> <<>>]
GitWC(origin, branch) == [k |-> "git", origin |-> origin, branch |-> branch]

FsAt(disk, path) == IF path \in DOMAIN disk THEN disk[path] ELSE fs0

\* os.path.isdir(path)
IsDir(disk, path) == FsAt(disk, path).k # "absent"

\* the disk after path comes to hold what (a path is listed only while it
\* differs from fs0)
FsPut(disk, path, what) ==
    IF what = fs0 THEN [p \in DOMAIN disk \ {path} |-> disk[p]]
    ELSE (path :> what) @@ disk

(***************************************************************************)
(* External processes.  A process ends with exit status 0 ("ok"), ends     *)
(* with another exit status ("fail"), or never ends by itself ("never").   *)
(* subprocess.check_output with a timeout turns "never" into               *)
(* TimeoutExpired; without one it blocks for ever.                         *)
(***************************************************************************)
ProcOutcomes == {"ok", "fail", "never"}
NO_TIMEOUT == 0

Proc(cmd, path, source, timeout, out) ==
    [cmd |-> cmd, path |-> path, source |-> source, timeout |-> timeout, out |-> out]

NoExc == [type |-> "none", from |-> "none", cause |-> "none"]

\* What a call did: the resulting disk, the processes started, the trees
\* removed, the exception that left it (NoExc if it returned), whether it
\* blocked for ever, and whether it did what it was called for.
Effect(disk, procs, rm, exc, hung, ok) ==
    [fs |-> disk, procs |-> procs, rm |-> rm, exc |-> exc, hung |-> hung, ok |-> ok]

\* the except clause for TimeoutExpired of do_git_pull: it formats the name
\* source, which is neither a local of do_git_pull nor a global
GitPullTimeoutHandler(disk, procs) ==
    Effect(disk, procs, {},
           [type |-> "NameError", from |-> "do_git_pull", cause |-> "timeout"], FALSE, FALSE)

\* a checkout_git_repo that clones without -b: the clone is on the default
\* branch of the repository
checkout_git_repoDefaultBranch(disk, path, source, branch) ==
    LET rmtree == IF IsDir(disk, path) THEN {"ok", "OSError"} ELSE {"skip"}
        removed == IF IsDir(disk, path) THEN {path} ELSE {}
        clone(out) == Proc("git clone", path, source, CHECKOUT_TIMEOUT, out)
        after(out) == IF out = "ok" THEN GitWC(source, <<"t","r","u","n","k">>)
                      ELSE IF out = "fail" THEN Absent
                      ELSE PlainDir
    IN  { IF r = "OSError"
          THEN Effect(disk, <<>>, removed,
                      [type |-> "OSError", from |-> "checkout_git_repo", cause |-> "filesystem"],
                      FALSE, FALSE)
          ELSE Effect(FsPut(disk, path, after(out)), <<clone(out)>>, removed,
                      NoExc, FALSE, out = "ok")
          : r \in rmtree, out \in ProcOutcomes }

\* checkout_git_repo(path, source, branch)
checkout_git_repo(disk, path, source, branch) ==
    LET rmtree == IF IsDir(disk, path) THEN {"ok", "OSError"} ELSE {"skip"}
        removed == IF IsDir(disk, path) THEN {path} ELSE {}
        clone(out) == Proc("git clone", path, source, CHECKOUT_TIMEOUT, out)
        after(out) == IF out = "ok" THEN GitWC(source, branch)
                      ELSE IF out = "fail" THEN Absent
                      ELSE PlainDir
    IN  { IF r = "OSError"
          THEN Effect(disk, <<>>, removed,
                      [type |-> "OSError", from |-> "checkout_git_repo", cause |-> "filesystem"],
                      FALSE, FALSE)
          ELSE Effect(FsPut(disk, path, after(out)), <<clone(out)>>, removed,
                      NoExc, FALSE, out = "ok")
          : r \in rmtree, out \in ProcOutcomes }

\* a do_git_pull whose handler of a failed fetch does not return
do_git_pullNoReturn(disk, path, branch) ==
    LET fetch(out) == Proc("git fetch", path, <<>>, CHECKOUT_TIMEOUT, out)
        reset(out) == Proc("git reset", path, <<>>, NO_TIMEOUT, out)
    IN  { GitPullTimeoutHandler(disk, <<fetch("never")>>) }
        \cup
        { Effect(disk, <<fetch(f), reset(out)>>, {}, NoExc, out = "never",
                 f = "ok" /\ out = "ok")
          : f \in {"ok", "fail"}, out \in ProcOutcomes }

\* do_git_pull(path, branch)
do_git_pull(disk, path, branch) ==
    LET fetch(out) == Proc("git fetch", path, <<>>, CHECKOUT_TIMEOUT, out)
        reset(out) == Proc("git reset", path, <<>>, NO_TIMEOUT, out)
    IN  { Effect(disk, <<fetch("fail")>>, {}, NoExc, FALSE, FALSE),
          GitPullTimeoutHandler(disk, <<fetch("never")>>) }
        \cup
        { Effect(disk, <<fetch("ok"), reset(out)>>, {}, NoExc, out = "never", out = "ok")
          : out \in ProcOutcomes }

\* do_svn_up(path)
do_svn_up(disk, path) ==
    { Effect(disk, <<Proc("svn up", path, <<>>, CHECKOUT_TIMEOUT, out)>>, {}, NoExc,
             FALSE, out = "ok")
      : out \in ProcOutcomes }

(***************************************************************************)
(* deploy_site                                                             *)
(***************************************************************************)
\* the pre-validation of deploy_site: "ok", or the check that rejects
Validate(deploydir, source, branch, deploytype) ==
    LET path == PathJoin(ROOT_DIR, deploydir) IN
    IF ~ReMatchClassPlus(DeployDirClass, Replace(deploydir, DOT_APACHE_ORG, <<>>))
       \/ Contains(deploydir, DOTDOT)
    THEN "dir"
    ELSE IF AbsPath(path) # path THEN "path"
    ELSE IF deploytype # SVN /\ ~StartsWith(source, GITBOX_PREFIX)
            /\ ~StartsWith(source, GITHUB_PREFIX)
    THEN "source"
    ELSE IF branch = <<>> THEN "branch"
    ELSE "ok"

\* the path deploy_site works on
DeployPath(deploydir, deploytype) ==
    IF deploytype = BLOG
    THEN PathJoin(BLOGS_ROOT_DIR, Replace(deploydir, DOT_BLOG, <<>>))
    ELSE PathJoin(ROOT_DIR, deploydir)

\* a comparison that leaves the branch out
SameCheckoutSourceOnly(csource, cbranch, source, branch) == csource = source

\* the comparison of the checkout's origin and branch with the request's
SameCheckout(csource, cbranch, source, branch) == csource = source /\ cbranch = branch

\* what check_output(...).decode("utf-8").strip() gives for a value git prints
ReadLine(value) == Strip(value \o <<"\n">>)

\* an effect of deploy_site: what it decided to do, on which path
Did(act, path, e) == e @@ [act |-> act, path |-> path]

\* the two metadata reads of deploy_site and what follows them
ExistingGit(disk, path, source, branch) ==
    LET on == FsAt(disk, path)
        config(out) == Proc("git config", path, <<>>, NO_TIMEOUT, out)
        symref(out) == Proc("git symbolic-ref", path, <<>>, NO_TIMEOUT, out)
        withProcs(pre, S) == { [e EXCEPT !.procs = pre \o e.procs] : e \in S }
        clobber == checkout_git_repo(disk, path, source, branch)
        \* the reads that end: both succeed only on a checkout with metadata
        reads == { <<config("fail")>> }
                 \cup (IF on.k = "git" THEN { <<config("ok"), symref("fail")>> } ELSE {})
        hangs == { <<config("never")>> }
                 \cup (IF on.k = "git" THEN { <<config("ok"), symref("never")>> } ELSE {})
    IN  { Did("hung", path, Effect(disk, h, {}, NoExc, TRUE, FALSE)) : h \in hangs }
        \cup UNION { { Did("clobber", path, e) : e \in withProcs(r, clobber) } : r \in reads }
        \cup (IF on.k # "git" THEN {}
              ELSE LET pre == <<config("ok"), symref("ok")>>
                       csource == ReadLine(on.origin)
                       cbranch == ReadLine(on.branch)
                   IN  IF SameCheckout(csource, cbranch, source, branch)
                       THEN { Did("pull", path, e)
                              : e \in withProcs(pre, do_git_pull(disk, path, branch)) }
                       ELSE { Did("clobber", path, e) : e \in withProcs(pre, clobber) })

\* a deploy_site whose pre-validation warns and does not return
deploy_siteWarnsOnly(disk, deploydir, source, branch, deploytype) ==
    LET path == DeployPath(deploydir, deploytype) IN
    IF IsDir(disk, path)
    THEN IF FsAt(disk, path).k = "svn"
         THEN IF deploytype = SVN
              THEN { Did("svnup", path, e) : e \in do_svn_up(disk, path) }
              ELSE { Did("clobber", path, e)
                     : e \in checkout_git_repo(disk, path, source, branch) }
         ELSE ExistingGit(disk, path, source, branch)
    ELSE IF deploytype = SVN
         THEN { Did("noop", path, Effect(disk, <<>>, {}, NoExc, FALSE, FALSE)) }
         ELSE { Did("checkout", path, e)
                : e \in checkout_git_repo(disk, path, source, branch) }

\* a deploy_site that checks out fresh into an absent directory whatever the
\* deploy type
deploy_siteAlwaysProvisions(disk, deploydir, source, branch, deploytype) ==
    LET path == DeployPath(deploydir, deploytype)
        nothing == Effect(disk, <<>>, {}, NoExc, FALSE, FALSE)
    IN  IF Validate(deploydir, source, branch, deploytype) # "ok"
        THEN { Did("rejected", path, nothing) }
        ELSE IF IsDir(disk, path)
        THEN IF FsAt(disk, path).k = "svn"
             THEN IF deploytype = SVN
                  THEN { Did("svnup", path, e) : e \in do_svn_up(disk, path) }
                  ELSE { Did("clobber", path, e)
                         : e \in checkout_git_repo(disk, path, source, branch) }
             ELSE ExistingGit(disk, path, source, branch)
        ELSE { Did("checkout", path, e)
               : e \in checkout_git_repo(disk, path, source, branch) }

\* deploy_site(deploydir, source, branch, committer, deploytype): the set of
\* things it can do on the disk, one per outcome of the processes it starts
deploy_site(disk, deploydir, source, branch, deploytype) ==
    LET path == DeployPath(deploydir, deploytype)
        nothing == Effect(disk, <<>>, {}, NoExc, FALSE, FALSE)
    IN  IF Validate(deploydir, source, branch, deploytype) # "ok"
        THEN { Did("rejected", path, nothing) }
        ELSE IF IsDir(disk, path)
        THEN IF FsAt(disk, path).k = "svn"
             THEN IF deploytype = SVN
                  THEN { Did("svnup", path, e) : e \in do_svn_up(disk, path) }
                  ELSE { Did("clobber", path, e)
                         : e \in checkout_git_repo(disk, path, source, branch) }
             ELSE ExistingGit(disk, path, source, branch)
        ELSE IF deploytype = SVN
             THEN { Did("noop", path, nothing) }
             ELSE { Did("checkout", path, e)
                    : e \in checkout_git_repo(disk, path, source, branch) }


(***************************************************************************)
(* The deploy queue: a Python dict, a list of entries in insertion order   *)
(* with one entry per key.                                                 *)
(***************************************************************************)
DictIds == {0, 1, 2}
EmptyMap == [x \in {} |-> <<>>]
NoItem == [key |-> <<>>, opts |-> NoEntry.opts]

\* no iterator exists
NoIter == [pos |-> 1, used |-> 0]

HasKey(d, key) == \E i \in 1..Len(d) : d[i].key = key

\* a store that keeps the entry a key already has
UpsertKeepFirst(d, key, opts) ==
    IF HasKey(d, key) THEN d ELSE Append(d, [key |-> key, opts |-> opts])

\* d[key] = opts
Upsert(d, key, opts) ==
    IF HasKey(d, key)
    THEN [i \in 1..Len(d) |-> IF d[i].key = key THEN [key |-> key, opts |-> opts] ELSE d[i]]
    ELSE Append(d, [key |-> key, opts |-> opts])

\* the dicts some thread can still read or write
Refs(pq, xpq, dp, lp, lr) ==
    {pq} \cup (IF dp \in {"clear", "iter", "body"} THEN {xpq} ELSE {})
         \cup (IF lp = "store" THEN {lr} ELSE {})

\* a dict nobody refers to is garbage
Collect(h, refs, empty) == [d \in DictIds |-> IF d \in refs THEN h[d] ELSE empty]

(***************************************************************************)
(* The payloads the stream delivers                                        *)
(***************************************************************************)
GitboxFoo == <<"h","t","t","p","s",":","/","/","g","i","t","b","o","x",".","a","p","a","c","h","e",".","o","r","g","/","r","e","p","o","s","/","a","s","f","/","f","o","o",".","g","i","t">>
EvilSource == <<"h","t","t","p","s",":","/","/","e","v","i","l",".","e","x","a","m","p","l","e","/","x",".","g","i","t">>
RefsHeadsMain == <<"r","e","f","s","/","h","e","a","d","s","/","m","a","i","n">>
FOO == <<"f","o","o">>
BAR == <<"b","a","r">>
FOO_NEWLINE == <<"f","o","o","\n">>
FOO_BANG == <<"f","o","!">>
SLASH_ETC == <<"/","e","t","c">>
ChangedA == <<"f","o","o","/","s","i","t","e","/","a",".","t","x","t">>
ChangedB == <<"f","o","o","/","s","i","t","e","/","b","/","c",".","t","x","t">>
ChangedC == <<"f","o","o","/","d","o","c","/","d",".","t","x","t">>
SLASH_A == <<"/","a">>
SLASH_A_B_C == <<"/","a","/","b","/","c">>
SLASH_A_D_E == <<"/","a","/","d","/","e">>
ChangedPaths == {ChangedA, ChangedB, ChangedC, SLASH_A, SLASH_A_B_C, SLASH_A_D_E}
SVN_OTHER_UUID == <<"00000000-0000-0000-0000-000000000000">>
Repositories == {SVN_ASF_UUID, SVN_OTHER_UUID}
PROFILE == <<"d","e","v">>
SUB == <<"s","u","b">>

Body(project, source, branch, subdir, type, target) ==
    [NoNative EXCEPT !.is = "dict", !.project = project, !.source = source,
                     !.branch = branch, !.subdir = subdir, !.type = type,
                     !.target = target]

\* a payload without sections
NoPayload == [commit |-> NoCommit, publish |-> NoNative, staging |-> NoNative]

\* a payload with one section, under the key "publish" or "staging"
Native(action, body) ==
    [commit |-> NoCommit,
     publish |-> IF action = "publish" THEN body ELSE NoNative,
     staging |-> IF action = "staging" THEN body ELSE NoNative]

\* Requests for two sites: a site's repository, another branch of it, and,
\* for the other site, a foreign repository under the legacy type.
CoreBodies ==
    { Body(FOO, GitboxFoo, Missing, Missing, Missing, Missing),
      Body(FOO, GitboxFoo, RefsHeadsMain, Missing, Missing, Missing),
      Body(BAR, EvilSource, Missing, Missing, SVN, Missing) }

CorePayloads == { Native(a, b) : a \in {"publish", "staging"}, b \in CoreBodies }

\* The values a field of a payload takes when one payload is followed from
\* the stream to the disk.
Projects == {FOO, FOO_NEWLINE, FOO_BANG}
Sources == {GitboxFoo, EvilSource}
Branches == {Missing, RefsHeadsMain}
Subdirs == {Missing, SUB, SLASH_ETC}
Types == {Missing, BLOG, SVN}
Targets == {Missing, SLASH_ETC}

\* a Subversion commit as svnpubsub delivers it: the payload has no other
\* section
Commit(repository, changed) ==
    [commit |-> [is |-> "dict", type |-> SVN, repository |-> repository,
                 changed |-> changed, committer |-> Missing],
     publish |-> NoNative, staging |-> NoNative]

SvnCommit == Commit(SVN_ASF_UUID, <<ChangedA, ChangedB>>).commit

\* the lists of changed paths of a commit: at most two of ChangedPaths
ChangedLists ==
    { <<>> } \cup { <<a>> : a \in ChangedPaths }
    \cup { <<a, b>> : a \in ChangedPaths, b \in ChangedPaths }

CommitPayloads == { Commit(r, c) : r \in Repositories, c \in ChangedLists }

\* Sections that lack a field, carry an empty or null one, or are not an
\* object at all.
OddBodies ==
    { [NoNative EXCEPT !.is = "other"],
      Body(Missing, GitboxFoo, Missing, Missing, Missing, Missing),
      [Body(Missing, GitboxFoo, Missing, Missing, Missing, Missing) EXCEPT !.profile = PROFILE],
      [Body(FOO, GitboxFoo, Missing, Missing, Missing, Missing) EXCEPT !.profile = PROFILE],
      Body(FOO, Missing, Missing, Missing, Missing, Missing),
      Body(FOO, <<>>, Missing, Missing, Missing, Missing),
      Body(FOO, GitboxFoo, <<>>, Missing, Missing, Missing),
      Body(FOO, GitboxFoo, REFS_HEADS, Missing, Missing, Missing),
      Body(FOO, GitboxFoo, None, Missing, Missing, Missing),
      Body(FOO, GitboxFoo, ASF_SITE, Missing, Missing, Missing) }

Payloads ==
    { Native(a, Body(p, s, b, d, t, g)) :
        a \in {"publish", "staging"}, p \in Projects, s \in Sources, b \in Branches,
        d \in Subdirs, t \in Types, g \in Targets }
    \cup { Native(a, b) : a \in {"publish", "staging"}, b \in OddBodies }
    \cup CommitPayloads

\* what the directories of the disk hold before the engine starts
InitialDirs == { Absent, SvnWC, PlainDir, GitWC(GitboxFoo, ASF_SITE) }

\* the number of payloads a behaviour receives
MaxEvents == 2

(***************************************************************************)
(* listen                                                                  *)
(***************************************************************************)
\* One pass of the loop body of listen up to the LOAD_GLOBAL of the
\* statement PUBSUB_QUEUE[deploydir] = [...].  Only ValueError is caught:
\* any other exception ends listen.
Receive(payload) ==
    /\ lpc = "idle"
    /\ nev < MaxEvents
    /\ nev' = nev + 1
    /\ lpayload' = payload
    /\ lcp' = IF Recognized(payload.commit) THEN common_parent(payload.commit.changed)
              ELSE lcp
    /\ LET r == Normalize(payload, PUBLISH) IN
       IF r.exc # "none"
       THEN /\ lpc' = "dead"
            /\ UNCHANGED <<lref, lent>>
       ELSE IF r.enq
       THEN /\ lpc' = "store"
            /\ lref' = PUBSUB_QUEUE
            /\ lent' = [key |-> r.key, opts |-> r.opts]
       ELSE UNCHANGED <<lpc, lref, lent>>
    /\ UNCHANGED <<PUBLISH, FASTLY_API_KEY, fs0, fs, heap, PUBSUB_QUEUE, XPQ, it, item,
                   dpc, cur, ups, pend>>

\* the record of the stores into a dict: per key the opts last stored, the
\* opts stored before them, and the number of stores counted up to 2
Stored(u, key, opts) ==
    (key :> IF key \in DOMAIN u
            THEN [opts |-> opts, prev |-> u[key].opts, n |-> 2]
            ELSE [opts |-> opts, prev |-> opts, n |-> 1]) @@ u

\* The STORE_SUBSCR of PUBSUB_QUEUE[deploydir] = [...], into the dict loaded.
Store ==
    /\ lpc = "store"
    /\ lpc' = "idle"
    /\ lref' = 0
    /\ lent' = NoItem
    /\ /\ heap' = Collect([heap EXCEPT ![lref] = Upsert(@, lent.key, lent.opts)],
                          Refs(PUBSUB_QUEUE, XPQ, dpc, "idle", 0), <<>>)
       /\ ups' = Collect([ups EXCEPT ![lref] = Stored(@, lent.key, lent.opts)],
                         Refs(PUBSUB_QUEUE, XPQ, dpc, "idle", 0), EmptyMap)
    /\ pend' = (lent.key :> lent.opts) @@ pend
    /\ UNCHANGED <<lpayload, lcp, PUBLISH, FASTLY_API_KEY, fs0, fs, PUBSUB_QUEUE, XPQ, it, item,
                   dpc, nev, cur>>

\* The stream of asfpy.pubsub.listen ends: the async for is left, the
\* warning is logged, listen returns and with it asyncio.run.
Disconnect ==
    /\ lpc = "idle"
    /\ lpc' = "ended"
    /\ UNCHANGED <<lpayload, lcp, PUBLISH, FASTLY_API_KEY, fs0, fs, heap, PUBSUB_QUEUE,
                   XPQ, it, item, dpc, lref, lent, nev, cur, ups, pend>>

(***************************************************************************)
(* deploy.run                                                              *)
(***************************************************************************)
\* XPQ = PUBSUB_QUEUE
Take ==
    /\ dpc = "take"
    /\ dpc' = "clear"
    /\ XPQ' = PUBSUB_QUEUE
    /\ UNCHANGED <<lpayload, lcp, PUBLISH, FASTLY_API_KEY, fs0, fs, heap, PUBSUB_QUEUE, it, item,
                   lpc, lref, lent, nev, cur, ups, pend>>

\* the identity of a new dict
NewDict(refs) == CHOOSE d \in DictIds : d \notin refs /\ \A e \in DictIds : e < d => e \in refs

\* PUBSUB_QUEUE = {} and the creation of the iterator of XPQ.items()
Clear ==
    /\ dpc = "clear"
    /\ dpc' = "iter"
    /\ PUBSUB_QUEUE' = NewDict(Refs(PUBSUB_QUEUE, XPQ, dpc, lpc, lref))
    /\ it' = [pos |-> 1, used |-> Len(heap[XPQ])]
    /\ heap' = Collect(heap, Refs(PUBSUB_QUEUE', XPQ, "iter", lpc, lref), <<>>)
    /\ ups' = Collect(ups, Refs(PUBSUB_QUEUE', XPQ, "iter", lpc, lref), EmptyMap)
    /\ UNCHANGED <<lpayload, lcp, PUBLISH, FASTLY_API_KEY, fs0, fs, XPQ, item, lpc, lref, lent, nev,
                   cur, pend>>

\* what the body of the for loop did with the entry it has just processed
NoCur ==
    [key |-> <<>>, opts |-> NoEntry.opts, was |-> Absent, act |-> "none", path |-> <<>>,
     procs |-> <<>>, rm |-> {}, exc |-> NoExc, hung |-> FALSE, ok |-> FALSE,
     purged |-> <<>>, purgeFailed |-> FALSE]

\* The for statement asks the iterator for the next entry: RuntimeError
\* (outside the try, so it ends run) if the dict changed size since the
\* iterator was created; the end of the loop, then time.sleep(5) and the next
\* pass of while True; or the next entry, bound to deploydir and opts.
ForIter ==
    /\ dpc = "iter"
    /\ IF Len(heap[XPQ]) # it.used
       THEN /\ dpc' = "dead"
            /\ UNCHANGED <<it, item, pend, heap, ups>>
       ELSE IF it.pos > Len(heap[XPQ])
       THEN /\ dpc' = "take"
            /\ it' = NoIter
            /\ heap' = Collect(heap, Refs(PUBSUB_QUEUE, XPQ, "take", lpc, lref), <<>>)
            /\ ups' = Collect(ups, Refs(PUBSUB_QUEUE, XPQ, "take", lpc, lref), EmptyMap)
            /\ UNCHANGED <<item, pend>>
       ELSE /\ dpc' = "body"
            /\ item' = heap[XPQ][it.pos]
            /\ it' = [it EXCEPT !.pos = @ + 1]
            /\ pend' = LET e == heap[XPQ][it.pos] IN
                       IF e.key \in DOMAIN pend /\ pend[e.key] = e.opts
                       THEN [k \in DOMAIN pend \ {e.key} |-> pend[k]]
                       ELSE pend
            /\ UNCHANGED <<heap, ups>>
    /\ cur' = NoCur
    /\ UNCHANGED <<lpayload, lcp, PUBLISH, FASTLY_API_KEY, fs0, fs, PUBSUB_QUEUE, XPQ, lpc, lref, lent,
                   nev>>

\* the hosts the body of the for loop purges, in order
PurgeHosts(deploydir, hostname, deploytype) ==
    (IF deploytype = BLOG
     THEN <<Replace(deploydir, DOT_BLOG, <<>>) \o DOT_BLOG_APACHE_ORG>> ELSE <<>>)
    \o <<hostname>>
    \o (IF hostname = WWW_APACHE_ORG THEN <<APACHE_ORG>> ELSE <<>>)

\* The purge calls that follow a deploy_site that returned: each host is
\* purged in turn until a purge_site raises.
PurgeRuns(e, deploydir, hostname, deploytype) ==
    LET hosts == PurgeHosts(deploydir, hostname, deploytype) IN
    IF e.hung \/ e.exc # NoExc \/ ~(PUBLISH /\ FASTLY_API_KEY)
    THEN { [purged |-> <<>>, purgeFailed |-> FALSE] }
    ELSE { [purged |-> SubSeq(hosts, 1, n), purgeFailed |-> TRUE] : n \in 1..Len(hosts) }
         \cup { [purged |-> hosts, purgeFailed |-> FALSE] }

\* a body whose exceptions are not caught: one ends run
AfterBodyNoExcept(e, purge) ==
    IF e.hung THEN "hung"
    ELSE IF e.exc # NoExc \/ purge.purgeFailed THEN "dead"
    ELSE "iter"

\* where run is after the body of the for loop: blocked for ever in a
\* process, or, any Exception being caught by the except clause, back at the
\* for statement
AfterBody(e, purge) == IF e.hung THEN "hung" ELSE "iter"

\* a body that puts the entry it failed on back into the live queue
RunEntryRequeues ==
    /\ dpc = "body"
    /\ \E e \in deploy_site(fs, item.key, item.opts.source, item.opts.branch,
                            item.opts.deploytype) :
         \E purge \in PurgeRuns(e, item.key, item.opts.hostname, item.opts.deploytype) :
            /\ fs' = e.fs
            /\ dpc' = AfterBody(e, purge)
            /\ cur' = [key |-> item.key, opts |-> item.opts, was |-> FsAt(fs, e.path),
                       act |-> e.act, path |-> e.path, procs |-> e.procs, rm |-> e.rm,
                       exc |-> e.exc, hung |-> e.hung, ok |-> e.ok,
                       purged |-> purge.purged, purgeFailed |-> purge.purgeFailed]
            /\ heap' = IF e.ok THEN heap
                       ELSE [heap EXCEPT ![PUBSUB_QUEUE] = Upsert(@, item.key, item.opts)]
    /\ item' = NoItem
    /\ UNCHANGED <<lpayload, lcp, PUBLISH, FASTLY_API_KEY, fs0, PUBSUB_QUEUE, XPQ, it,
                   lpc, lref, lent, nev, ups, pend>>

\* the body of the for loop of run, for the entry bound
RunEntry ==
    /\ dpc = "body"
    /\ \E e \in deploy_site(fs, item.key, item.opts.source, item.opts.branch,
                            item.opts.deploytype) :
         \E purge \in PurgeRuns(e, item.key, item.opts.hostname, item.opts.deploytype) :
            /\ fs' = e.fs
            /\ dpc' = AfterBody(e, purge)
            /\ cur' = [key |-> item.key, opts |-> item.opts, was |-> FsAt(fs, e.path),
                       act |-> e.act, path |-> e.path, procs |-> e.procs, rm |-> e.rm,
                       exc |-> e.exc, hung |-> e.hung, ok |-> e.ok,
                       purged |-> purge.purged, purgeFailed |-> purge.purgeFailed]
    /\ item' = NoItem
    /\ UNCHANGED <<lpayload, lcp, PUBLISH, FASTLY_API_KEY, fs0, heap, PUBSUB_QUEUE, XPQ, it, lpc, lref,
                   lent, nev, ups, pend>>

(***************************************************************************)
(* The specification                                                       *)
(***************************************************************************)
Init ==
    /\ PUBLISH \in BOOLEAN
    \* "Fastly purge key, only present on tlp-he2", a publishing host
    /\ FASTLY_API_KEY \in (IF PUBLISH THEN BOOLEAN ELSE {FALSE})
    /\ fs0 \in InitialDirs
    /\ fs = EmptyMap
    /\ heap = [d \in DictIds |-> <<>>]
    /\ PUBSUB_QUEUE = 0
    /\ XPQ = 0
    /\ it = NoIter
    /\ item = NoItem
    /\ dpc = "take"
    /\ lpc = "idle"
    /\ lref = 0
    /\ lent = NoItem
    /\ lpayload = NoPayload
    /\ lcp = None
    /\ nev = 0
    /\ cur = NoCur
    /\ ups = [d \in DictIds |-> EmptyMap]
    /\ pend = EmptyMap

\* a payload with a section for the mode of this host ("if expected_action
\* in payload"); SpecOne also delivers the payloads of the other mode
Addressed(payload) == (IF PUBLISH THEN payload.publish ELSE payload.staging).is # "missing"

Next ==
    \/ \E payload \in CorePayloads : Addressed(payload) /\ Receive(payload)
    \/ Disconnect
    \/ Store
    \/ Take
    \/ Clear
    \/ ForIter
    \/ RunEntry

Spec == Init /\ [][Next]_vars

\* One payload, any of Payloads, followed from the stream to the disk.
NextOne ==
    \/ \E payload \in Payloads : nev = 0 /\ Receive(payload)
    \/ Disconnect
    \/ Store
    \/ Take
    \/ Clear
    \/ ForIter
    \/ RunEntry

SpecOne == Init /\ [][NextOne]_vars


(***************************************************************************)
(* Properties                                                              *)
(***************************************************************************)
HasEntry(d, key, opts) == \E i \in 1..Len(d) : d[i] = [key |-> key, opts |-> opts]

\* the entries of the snapshot the for loop has still to bind
Remaining ==
    IF dpc \in {"iter", "body"}
    THEN SubSeq(heap[XPQ], it.pos, Len(heap[XPQ]))
    ELSE IF dpc = "clear" THEN heap[XPQ]
    ELSE <<>>

\* C1: every request listen has stored, and no later store of the same key
\* has superseded, is handed to the body of the drain loop: until the for
\* loop binds it, it is in the live queue or among the entries the loop has
\* still to bind, and the drain thread is alive to bind it.
C1_NoUpsertLost ==
    /\ dpc # "dead"
    /\ \A k \in DOMAIN pend :
          \/ HasEntry(heap[PUBSUB_QUEUE], k, pend[k])
          \/ HasEntry(Remaining, k, pend[k])

\* C2: a queue dict holds at most one entry per key, and the entry of a key
\* is the request stored last under that key (last-writer-wins).
C2_OneEntryPerKeyLastWins ==
    \A d \in DictIds :
        /\ \A i, j \in 1..Len(heap[d]) : heap[d][i].key = heap[d][j].key => i = j
        /\ \A i \in 1..Len(heap[d]) :
              /\ heap[d][i].key \in DOMAIN ups[d]
              /\ heap[d][i].opts = ups[d][heap[d][i].key].opts
        /\ \A k \in DOMAIN ups[d] : HasKey(heap[d], k)

\* two different requests were stored under one key before the drain, and
\* the for loop has bound the one entry of that key: the second request
C2_Witness ==
    /\ dpc = "body"
    /\ item.key \in DOMAIN ups[XPQ]
    /\ ups[XPQ][item.key].n = 2
    /\ ups[XPQ][item.key].prev # ups[XPQ][item.key].opts
    /\ item.opts = ups[XPQ][item.key].opts
    /\ Len(heap[XPQ]) = 1

\* p is a strict descendant of the directory root
StrictlyUnder(root, p) ==
    /\ StartsWith(NormPath(p), root \o SLASH)
    /\ Len(NormPath(p)) > Len(root) + 1

Acted(c) == c.act \in {"checkout", "clobber", "pull", "svnup"}

\* C3: every path deploy_site removes, checks out into, pulls in or updates
\* is a strict descendant of the deployment root (/www, or /www/blogs for a
\* blog).
C3_PathsUnderRoot ==
    Acted(cur) =>
        LET root == IF cur.opts.deploytype = BLOG THEN BLOGS_ROOT_DIR ELSE ROOT_DIR IN
        /\ StrictlyUnder(root, cur.path)
        /\ \A p \in cur.rm : StrictlyUnder(root, p)
        /\ \A i \in 1..Len(cur.procs) : StrictlyUnder(root, cur.procs[i].path)

Trusted(source) == StartsWith(source, GITBOX_PREFIX) \/ StartsWith(source, GITHUB_PREFIX)

\* C4: no git clone is started against a source that does not start with a
\* trusted origin prefix, whatever the type of the request.
C4_ClonesFromTrustedOnly ==
    \A i \in 1..Len(cur.procs) :
        cur.procs[i].cmd = "git clone" => Trusted(cur.procs[i].source)

\* C5: a request whose target_dir contains ".." or a character outside the
\* allow-list (letters, digits, "-", ".", "/") is rejected, and nothing is
\* removed and no process started for it.
C5_BadTargetDirRejected ==
    (/\ cur.act # "none"
     /\ \/ Contains(cur.key, DOTDOT)
        \/ \E i \in 1..Len(cur.key) : cur.key[i] \notin DeployDirClass)
    => (cur.act = "rejected" /\ cur.procs = <<>> /\ cur.rm = {})

\* both metadata reads of the checkout ended with exit status 0
MetadataRead(c) ==
    /\ Len(c.procs) >= 2
    /\ c.procs[1].cmd = "git config" /\ c.procs[1].out = "ok"
    /\ c.procs[2].cmd = "git symbolic-ref" /\ c.procs[2].out = "ok"

\* a metadata read of the checkout ended with another exit status
MetadataUnreadable(c) ==
    \E i \in 1..Len(c.procs) :
        c.procs[i].cmd \in {"git config", "git symbolic-ref"} /\ c.procs[i].out = "fail"

\* C6: for a validated request on an existing current-VCS checkout, the
\* action is the incremental update, with nothing removed, if the recorded
\* origin and branch both equal the request's source and branch; it is the
\* clobber (the tree removed, then the clone) if either differs or the
\* metadata cannot be read.
C6_ReconcileExistingCheckout ==
    (cur.was.k \in {"git", "dir"} /\ cur.act \notin {"none", "rejected", "hung"}) =>
        /\ (MetadataRead(cur) /\ cur.was.origin = cur.opts.source
              /\ cur.was.branch = cur.opts.branch)
           => (cur.act = "pull" /\ cur.rm = {} /\ FsAt(fs, cur.path) = cur.was)
        /\ (MetadataRead(cur) /\ (cur.was.origin # cur.opts.source
              \/ cur.was.branch # cur.opts.branch))
           => (cur.act = "clobber" /\ cur.rm = {cur.path})
        /\ MetadataUnreadable(cur) => (cur.act = "clobber" /\ cur.rm = {cur.path})

\* an incremental update of a checkout whose origin and branch match
C6_Witness ==
    /\ cur.act = "pull"
    /\ cur.was = GitWC(cur.opts.source, cur.opts.branch)
    /\ cur.ok

\* C7: a purge is issued for a request only after its deploy action (fresh
\* checkout, clobber or update) succeeded.
C7_PurgeOnlyAfterSuccess ==
    cur.purged # <<>> => (Acted(cur) /\ cur.ok)

\* the body failed on its entry: a rejection, an exception, a process that
\* failed or timed out, or a failed purge
Failed(c) ==
    /\ ~c.hung
    /\ \/ c.act = "rejected"
       \/ c.exc # NoExc
       \/ \E i \in 1..Len(c.procs) : c.procs[i].out # "ok"
       \/ c.purgeFailed

\* C8: when the body of the for loop fails on an entry, run is next at the
\* for statement, with the iterator and the snapshot as they were: the
\* remaining entries are still to be attempted, and the loop goes on.
C8_FailureDoesNotStopDrain ==
    [][(dpc = "body" /\ dpc' # "body" /\ Failed(cur'))
        => (dpc' = "iter" /\ it' = it /\ XPQ' = XPQ /\ heap'[XPQ] = heap[XPQ])]_vars

\* the body failed on an entry and the snapshot has another entry to attempt
C8_Witness ==
    /\ dpc = "iter"
    /\ Failed(cur)
    /\ cur.exc # NoExc
    /\ it.pos <= Len(heap[XPQ])
    /\ it.used = Len(heap[XPQ])

\* C9: no exception caused by the exit status or the timeout of an external
\* process leaves checkout_git_repo, do_git_pull or do_svn_up.
C9_VcsOperationsReturn ==
    ~(/\ cur.exc.from \in {"checkout_git_repo", "do_git_pull", "do_svn_up"}
      /\ cur.exc.cause \in {"exit", "timeout"})

\* C10: every external process started for a request runs under the fixed
\* timeout, and the drain thread is never blocked in a process that does not
\* end.
C10_EveryProcessTimed ==
    /\ \A i \in 1..Len(cur.procs) : cur.procs[i].timeout = CHECKOUT_TIMEOUT
    /\ dpc # "hung"

\* the section of the payload received last that listen reads in its mode
Section == IF PUBLISH THEN lpayload.publish ELSE lpayload.staging

\* C11: a malformed event is reported and skipped: whatever error the
\* normalization of an event raises, listen stays in its loop, ready for the
\* events that follow.
C11_MalformedEventSkipped == lpc # "dead"

\* the source locator listen derives from a commit
SvnUrl(commit) == PathJoin(SvnRoot(commit.repository), common_parent(commit.changed))

\* a commit to a known repository whose locator a routing entry matches
Routed(p) ==
    /\ Recognized(p.commit)
    /\ \E i \in 1..Len(SvnTrack) :
          StartsWith(SvnUrl(p.commit), SvnTrack[i][2]) /\ StartsWith(SvnTrack[i][1], SLASH)

\* C12: on a publishing host, when listen receives a commit to a known
\* repository whose locator a routing entry matches, it goes on to store
\* one request, and the deploy type of that request is svn.
C12_RoutedCommitEnqueuedAsSvn ==
    [][(nev' = nev + 1 /\ PUBLISH /\ Routed(lpayload'))
        => (lpc' = "store" /\ lent'.opts.deploytype = SVN)]_vars

\* a Subversion commit to a repository that is not in SVN_UUIDS
UnknownRepository(p) ==
    /\ p.commit.is = "dict"
    /\ Get(p.commit.type, <<>>) = SVN
    /\ Get(p.commit.repository, <<>>) \notin SVN_UUIDS

\* C13: when listen receives a commit to a repository that is not in
\* SVN_UUIDS, it stores nothing: it does not go on to a store, and no queue
\* dict changes.
C13_UnknownRepositoryIgnored ==
    [][(nev' = nev + 1 /\ UnknownRepository(lpayload'))
        => (lpc' = "idle" /\ lent' = lent /\ heap' = heap
            /\ PUBSUB_QUEUE' = PUBSUB_QUEUE)]_vars

\* on a publishing host listen has received a commit to an unknown
\* repository whose changed paths are those of a routed site, and is back
\* waiting with every queue dict empty
C13_Witness ==
    /\ PUBLISH
    /\ nev = 1
    /\ UnknownRepository(lpayload)
    /\ lpayload.commit.changed = <<ChangedA, ChangedB>>
    /\ lpc = "idle"
    /\ \A d \in DictIds : heap[d] = <<>>

FooPublish == Native("publish", Body(FOO, GitboxFoo, ASF_SITE, Missing, Missing, Missing))
FooHost == FOO \o DOT_APACHE_ORG
FooEntry ==
    [key |-> FooHost,
     opts |-> [source |-> GitboxFoo, branch |-> ASF_SITE, committer |-> ROOT_USER,
               hostname |-> FooHost, deploytype |-> WEBSITE]]

\* the request of FooPublish is handed to deploy_site, first and once: the
\* only entry the for loop binds is FooEntry, deploy_site checks it out
\* fresh with one git clone of its source and branch, a clone that
\* succeeds is followed, where the purge key is present, by one purge call,
\* for foo.apache.org, and no entry is left to be deployed after it
C14_OneCheckoutOnePurge ==
    /\ lpc = "store" => lent = FooEntry
    /\ dpc = "body" => item = FooEntry
    /\ cur.act # "none" =>
          /\ cur.act = "checkout"
          /\ cur.key = FooHost
          /\ cur.path = PathJoin(ROOT_DIR, FooHost)
          /\ Len(cur.procs) = 1
          /\ cur.procs[1].cmd = "git clone"
          /\ cur.procs[1].source = GitboxFoo
          /\ cur.opts.branch = ASF_SITE
          /\ cur.ok => FsAt(fs, cur.path) = GitWC(GitboxFoo, ASF_SITE)
          /\ (cur.ok /\ FASTLY_API_KEY) => cur.purged = <<FooHost>>
          /\ ~FASTLY_API_KEY => cur.purged = <<>>
          /\ Remaining = <<>> /\ heap[PUBSUB_QUEUE] = <<>>

\* the request listen has stored is not lost on its way to deploy_site
C14_Delivered ==
    /\ dpc # "dead"
    /\ FooHost \in DOMAIN pend =>
          \/ HasEntry(heap[PUBSUB_QUEUE], FooHost, pend[FooHost])
          \/ HasEntry(Remaining, FooHost, pend[FooHost])

\* C14: on a publishing host with no directory at the target, the one event
\* {"publish": {"project": "foo", "source": gitbox foo.git, "branch":
\* "asf-site"}} produces exactly one fresh checkout of that source and
\* branch and, when it succeeds, exactly one purge call, for foo.apache.org.
C14_PublishEndToEnd ==
    (PUBLISH /\ fs0 = Absent /\ lpayload = FooPublish)
        => (C14_OneCheckoutOnePurge /\ C14_Delivered)

\* d is a directory prefix of every path of files
PrefixOfAll(d, files) == \A k \in 1..Len(files) : StartsWith(files[k], d)

\* the directory prefixes of a path: its prefixes that end with "/"
DirPrefixes(path) == { SubSeq(path, 1, n) : n \in { m \in 1..Len(path) : path[m] = "/" } }

\* C15: the common parent listen computes from the changed paths of a
\* commit is a prefix of every one of them, no longer directory prefix of a
\* path is a prefix of them all, and for no path and for the one path "/a"
\* it is "/".
C15_CommonParentDeepest ==
    Recognized(lpayload.commit) =>
        LET files == lpayload.commit.changed IN
        /\ PrefixOfAll(lcp, files)
        /\ \A k \in 1..Len(files) : \A d \in DirPrefixes(files[k]) :
              PrefixOfAll(d, files) => Len(d) <= Len(lcp)
        /\ files \in { <<>>, <<SLASH_A>> } => lcp = SLASH

\* a field of a section that is there and not empty
Present(v) == v \notin {Missing, None, <<>>}

\* C16: listen goes on to store a request only when the event gives a
\* target directory, a source and a branch: when the section it reads has
\* no project and no target, has no source, or has an empty branch, it
\* stores nothing.
C16_EnqueuedOnlyWhenComplete ==
    [][(/\ nev' = nev + 1
        /\ lpayload'.commit.is = "missing"
        /\ LET sec == IF PUBLISH THEN lpayload'.publish ELSE lpayload'.staging IN
           /\ sec.is = "dict"
           /\ \/ ~Present(sec.project) /\ ~Present(sec.target)
              \/ ~Present(sec.source)
              \/ sec.branch = <<>>)
        => lpc' # "store"]_vars

\* C17: a disconnect of the stream never ends listen: after it listen is
\* again in its loop, where the events published later are received.
C17_ListenReconnects == lpc # "ended"

\* the entry deploy_site has just handled passed its pre-validation
Validated(c) ==
    /\ c.act # "none"
    /\ Validate(c.key, c.opts.source, c.opts.branch, c.opts.deploytype) = "ok"

\* the processes started were one run of cmd
OneProcess(c, cmd) == Len(c.procs) = 1 /\ c.procs[1].cmd = cmd

\* C18: for a validated request, an absent directory is checked out fresh
\* for the types website and blog and left alone, with nothing started and
\* nothing changed on disk, for the type svn; a Subversion working copy is
\* updated in place, without removal, for the type svn, and removed and
\* then checked out fresh for the types website and blog.
C18_DecisionTable ==
    Validated(cur) =>
        /\ (cur.was = Absent /\ cur.opts.deploytype # SVN) =>
              /\ cur.act = "checkout"
              /\ cur.rm = {}
              /\ OneProcess(cur, "git clone")
              /\ cur.procs[1].source = cur.opts.source
        /\ (cur.was = Absent /\ cur.opts.deploytype = SVN) =>
              /\ cur.act = "noop"
              /\ cur.rm = {}
              /\ cur.procs = <<>>
              /\ FsAt(fs, cur.path) = Absent
        /\ (cur.was = SvnWC /\ cur.opts.deploytype = SVN) =>
              /\ cur.act = "svnup"
              /\ cur.rm = {}
              /\ OneProcess(cur, "svn up")
              /\ FsAt(fs, cur.path) = SvnWC
        /\ (cur.was = SvnWC /\ cur.opts.deploytype # SVN) =>
              /\ cur.act = "clobber"
              /\ cur.rm = {cur.path}
              /\ cur.exc = NoExc =>
                    /\ OneProcess(cur, "git clone")
                    /\ cur.procs[1].source = cur.opts.source
                    /\ FsAt(fs, cur.path) # SvnWC

\* a validated request of the type svn found no directory and was left alone
C18_Witness ==
    /\ Validated(cur)
    /\ cur.was = Absent
    /\ cur.opts.deploytype = SVN
    /\ cur.act = "noop"

\* the target directory of a section before any subdir: in staging mode the
\* project with its profile, in publish mode the project's host name or the
\* target the event names
BaseDir(sec) ==
    IF PUBLISH
    THEN IF Present(sec.target) THEN sec.target ELSE Str(Get(sec.project, None)) \o DOT_APACHE_ORG
    ELSE IF Present(sec.profile) THEN sec.project \o <<"-">> \o sec.profile ELSE sec.project

\* listen applies the subdir of a section
SubdirApplies(sec) == Present(sec.subdir) /\ ReMatchClassPlus(SubdirClass, sec.subdir)

\* a section of the type website that listen turns into a request
WebsiteRequest(sec) ==
    /\ sec.is = "dict"
    /\ Get(sec.type, WEBSITE) \notin {BLOG, SVN}

\* C19: the request listen stores for a website event keeps the base
\* directory as its purge host name; its key is the base directory
\* extended by the subdir when the event has a subdir of the allowed
\* characters, and the base directory itself otherwise; and the purge call
\* for a website request is made for the purge host name stored with it.
C19_SubdirKeyAndPurgeHost ==
    [][/\ (/\ nev' = nev + 1
           /\ lpayload'.commit.is = "missing"
           /\ WebsiteRequest(IF PUBLISH THEN lpayload'.publish ELSE lpayload'.staging)
           /\ lpc' = "store")
          => LET sec == IF PUBLISH THEN lpayload'.publish ELSE lpayload'.staging
                 key == lent'.key
                 base == BaseDir(sec)
             IN  /\ lent'.opts.hostname = base
                 /\ IF SubdirApplies(sec)
                    THEN /\ StartsWith(key, base \o SLASH)
                         /\ EndsWith(key, sec.subdir)
                    ELSE key = base
       /\ (cur'.purged # <<>> /\ cur'.opts.deploytype = WEBSITE)
          => cur'.purged[1] = cur'.opts.hostname]_vars

\* the i-th process of the entry just handled is a run of cmd
Ran(c, i, cmd) == i \in 1..Len(c.procs) /\ c.procs[i].cmd = cmd

\* C20: in an incremental update every git reset follows a git fetch that
\* ended with exit status 0; after a fetch that failed or timed out no
\* further process is started, nothing is removed and the directory holds
\* what it held.
C20_ResetOnlyAfterFetch ==
    cur.act = "pull" =>
        \A i \in 1..Len(cur.procs) :
            /\ Ran(cur, i, "git reset") =>
                  Ran(cur, i - 1, "git fetch") /\ cur.procs[i - 1].out = "ok"
            /\ (Ran(cur, i, "git fetch") /\ cur.procs[i].out # "ok") =>
                  /\ i = Len(cur.procs)
                  /\ cur.rm = {}
                  /\ FsAt(fs, cur.path) = cur.was

\* an incremental update whose fetch failed
C20_Witness ==
    /\ cur.act = "pull"
    /\ Ran(cur, Len(cur.procs), "git fetch")
    /\ cur.procs[Len(cur.procs)].out = "fail"

\* the pre-validation of deploy_site rejects the entry the for loop has bound
Rejects(e) == Validate(e.key, e.opts.source, e.opts.branch, e.opts.deploytype) # "ok"

\* C21: when the pre-validation rejects the entry bound, the body of the
\* for loop leaves the disk as it is, removes no tree and starts no
\* process, and the loop goes on with the same iterator over the same
\* snapshot.
C21_RejectionTouchesNothing ==
    [][(dpc = "body" /\ dpc' # "body" /\ Rejects(item))
        => (/\ fs' = fs
            /\ cur'.procs = <<>>
            /\ cur'.rm = {}
            /\ dpc' = "iter" /\ it' = it /\ XPQ' = XPQ /\ heap' = heap)]_vars

\* a request for a foreign source was rejected where a checkout exists
C21_Witness ==
    /\ cur.act = "rejected"
    /\ cur.opts.source = EvilSource
    /\ cur.was = GitWC(GitboxFoo, ASF_SITE)
    /\ FsAt(fs, cur.path) = cur.was

\* the dict d comes to hold an entry it did not hold
GainsEntry(d) ==
    \E i \in 1..Len(heap'[d]) : ~HasEntry(heap[d], heap'[d][i].key, heap'[d][i].opts)

\* C22: a request whose deployment failed is not put back: the body of the
\* for loop leaves every queue dict as it is when it fails on an entry, and
\* the only step by which a dict comes to hold an entry is the store of
\* listen, of the entry listen has made, into the dict listen has loaded.
C22_FailedRequestNotRequeued ==
    [][/\ (dpc = "body" /\ dpc' # "body" /\ Failed(cur')) => heap' = heap
       /\ \A d \in DictIds :
             GainsEntry(d) =>
                /\ lpc = "store" /\ lpc' = "idle"
                /\ d = lref
                /\ heap'[d] = Upsert(heap[d], lent.key, lent.opts)]_vars

\* the body failed on an entry, and the live queue, a dict other than the
\* snapshot, has no entry for its key
C22_Witness ==
    /\ Failed(cur)
    /\ cur.act # "none"
    /\ PUBSUB_QUEUE # XPQ
    /\ ~HasKey(heap[PUBSUB_QUEUE], cur.key)

\* deploy_site has just succeeded with a checkout, a clobber or an update
\* for a request of the type website or blog
Deployed(c) ==
    /\ c.ok
    /\ c.act \in {"checkout", "clobber", "pull"}
    /\ c.opts.deploytype # SVN

\* C23: after deploy_site succeeded for a website or blog request, the
\* directory is a checkout of the request's source on the request's
\* branch, and deploy_site given the same request again, once it has read
\* the checkout's origin and branch, updates it in place: it removes
\* nothing and leaves the directory the checkout it is.
C23_RedeployUpdatesInPlace ==
    Deployed(cur) =>
        /\ FsAt(fs, cur.path) = GitWC(cur.opts.source, cur.opts.branch)
        /\ \A e \in deploy_site(fs, cur.key, cur.opts.source, cur.opts.branch,
                                 cur.opts.deploytype) :
              MetadataRead(e) =>
                 /\ e.act = "pull"
                 /\ e.rm = {}
                 /\ e.path = cur.path
                 /\ FsAt(e.fs, e.path) = FsAt(fs, cur.path)

\* the engine, started with no directory, has checked a request out and
\* has now handled the same request again, by an update that succeeded
C23_Witness ==
    /\ fs0 = Absent
    /\ Deployed(cur)
    /\ cur.act = "pull"
    /\ cur.was = GitWC(cur.opts.source, cur.opts.branch)

=============================================================================
